---------------------------- MODULE Spec2Model ----------------------------
(***************************************************************************)
(* Model of the glue code of the repository:                               *)
(*   - accounts_server.py : the MCP accounts server (tools and resources)  *)
(*   - traders.py         : Trader (mode flag, MCP server lifecycle)       *)
(*   - main.py            : bootstrap (prepare_env, single trader run)     *)
(*   - ai_debate/main.py  : run() of the debate crew                       *)
(* Strings whose content matters (names, PATH, messages) are sequences of  *)
(* characters; the externally owned libraries (Account, MCPServerStdio,    *)
(* Runner, the crew) are the environment and are stubbed as mocks that      *)
(* record what was asked of them.                                          *)
(***************************************************************************)
EXTENDS Integers, Sequences, FiniteSets, TLC

VARIABLES
    \* ---- accounts_server.py
    loadPc,         \* position in the module body: next registration, then run
    tools,          \* names registered with mcp.tool()
    resources,      \* names registered with mcp.resource()
    AccountLoaded,  \* the global Account is bound (lazy import done)
    accounts,       \* the mocked Account store: key -> account state
    before,         \* the store as it was when the last request arrived
    lastCall,       \* the last request served: [fn, name, args]
    accesses,       \* the accesses the last request made on Account.get(key)
    ret,            \* what the last request returned (or raised)
    \* ---- traders.py (one Trader object, its callers are the tasks)
    nTrader,        \* len(trader_mcp_server_params)
    nResearcher,    \* len(researcher_mcp_server_params)
    do_trade,       \* Trader.do_trade
    pc,             \* where each caller is in run_with_trace
    label,          \* mode named in the trace label of the invocation
    msg,            \* mode of the message the invocation handed to Runner.run
    exc,            \* exception propagating out of the invocation
    thrown,         \* exception the library raised inside the invocation
    tOpen,          \* trader servers on `stack`, in entry order
    rOpen,          \* researcher servers on `stack_r`, in entry order
    started,        \* servers the invocation started, in start order
    closed,         \* servers the invocation closed, in close order
    printed,        \* the caller printed the updated account (main.py)
    overlapped,     \* another invocation was in flight during this one
    invocations,    \* run_with_trace calls made on the Trader so far
    completed,      \* sessions whose Runner.run returned
    sent,           \* the messages sent so far, in order
    mismatch,       \* some invocation sent a message its label does not name
    \* ---- main.py
    mainPc,         \* where main() is
    cwd,            \* the process's working directory
    environ,        \* os.environ: the set variables and their values
    cwd0,           \* the working directory main() started in
    environ0,       \* os.environ as it was when main() started
    dirExists,      \* LEGACY_DIR exists (os.chdir raises otherwise)
    isLinux,        \* sys.platform is linux and platform.system() is not Windows
    childWatcher,   \* a SafeChildWatcher is attached to the loop
    \* ---- ai_debate/main.py
    runPc,          \* where run() is
    raw,            \* result.raw of the crew's kickoff
    kickoffs,       \* calls of kickoff made by run()
    stdout,         \* what run() printed, in order
    runThrown,      \* the exception raised inside the try block
    runExc          \* the exception leaving run()

srvVars == <<loadPc, tools, resources, AccountLoaded, accounts, before,
             lastCall, accesses, ret>>

trVars == <<nTrader, nResearcher, do_trade, pc, label, msg, exc, thrown,
            tOpen, rOpen, started, closed, printed, overlapped,
            invocations, completed, sent, mismatch>>

envVars == <<mainPc, cwd, environ, cwd0, environ0, dirExists, isLinux,
             childWatcher>>

debVars == <<runPc, raw, kickoffs, stdout, runThrown, runExc>>

vars == <<srvVars, trVars, envVars, debVars>>

---------------------------------------------------------------------------
(* Bounds *)

InitBalance == 2
MaxQuantity == 2
MaxTraderServers == 2
MaxResearcherServers == 1
MaxInvocations == 3
MaxPathLen == 2
MaxTextLen == 2

---------------------------------------------------------------------------
(* Strings *)

LowerChar(c) ==
    CASE c = "T" -> "t"
      [] c = "O" -> "o"
      [] c = "M" -> "m"
      [] OTHER   -> c

\* str.lower()
Lower(s) == [i \in 1..Len(s) |-> LowerChar(s[i])]

Names == { <<"T", "o", "m">>, <<"t", "o", "m">> }

Symbols    == {"AAPL", "TSLA"}
Rationales == {"dip"}
Strategies == {"growth", "value"}

---------------------------------------------------------------------------
(* The mocked Account (the class lives in the external module `accounts`)  *)

NewAccount ==
    [balance  |-> InitBalance,
     holdings |-> [s \in Symbols |-> 0],
     strategy |-> "growth"]

Returned(v) == [kind |-> "return", val |-> v]
Raised(e)   == [kind |-> "raise",  val |-> e]

\* One access on Account.get(key): the store afterwards and what it produced.
AccountAccess(accts, key, op, args) ==
    LET a == accts[key] IN
    CASE op = "balance" ->
            [accts |-> accts, out |-> Returned(a.balance)]
      [] op = "holdings" ->
            [accts |-> accts, out |-> Returned(a.holdings)]
      [] op = "buy_shares" ->
            IF args[2] > a.balance
            THEN [accts |-> accts, out |-> Raised("ValueError")]
            ELSE LET b == [a EXCEPT !.balance = @ - args[2],
                                    !.holdings[args[1]] = @ + args[2]]
                 IN [accts |-> [accts EXCEPT ![key] = b],
                     out   |-> Returned(b.balance)]
      [] op = "sell_shares" ->
            IF args[2] > a.holdings[args[1]]
            THEN [accts |-> accts, out |-> Raised("ValueError")]
            ELSE LET b == [a EXCEPT !.balance = @ + args[2],
                                    !.holdings[args[1]] = @ - args[2]]
                 IN [accts |-> [accts EXCEPT ![key] = b],
                     out   |-> Returned(b.balance)]
      [] op = "change_strategy" ->
            [accts |-> [accts EXCEPT ![key].strategy = args[1]],
             out   |-> Returned("Changed strategy")]
      [] op = "report" ->
            [accts |-> accts, out |-> Returned(a)]
      [] op = "get_strategy" ->
            [accts |-> accts, out |-> Returned(a.strategy)]

---------------------------------------------------------------------------
(* accounts_server.py *)

\* The decorated definitions of the module body, in source order.
Registrations_NoChangeStrategy ==
    << [kind |-> "tool",     name |-> "get_balance"],
       [kind |-> "tool",     name |-> "get_holdings"],
       [kind |-> "tool",     name |-> "buy_shares"],
       [kind |-> "tool",     name |-> "sell_shares"],
       [kind |-> "resource", name |-> "read_account_resource"],
       [kind |-> "resource", name |-> "read_strategy_resource"] >>

Registrations ==
    << [kind |-> "tool",     name |-> "get_balance"],
       [kind |-> "tool",     name |-> "get_holdings"],
       [kind |-> "tool",     name |-> "buy_shares"],
       [kind |-> "tool",     name |-> "sell_shares"],
       [kind |-> "tool",     name |-> "change_strategy"],
       [kind |-> "resource", name |-> "read_account_resource"],
       [kind |-> "resource", name |-> "read_strategy_resource"] >>

Serving == loadPc = Len(Registrations) + 2

ServerInit ==
    /\ loadPc = 1
    /\ tools = {}
    /\ resources = {}
    /\ AccountLoaded = FALSE
    /\ accounts = [k \in Names |-> NewAccount]
    /\ before = accounts
    /\ lastCall = [fn |-> "none", name |-> <<>>, args |-> <<>>]
    /\ accesses = <<>>
    /\ ret = Returned("none")

\* @mcp.tool() / @mcp.resource(...): executing one decorated definition.
Register ==
    /\ loadPc \in 1..Len(Registrations)
    /\ LET r == Registrations[loadPc] IN
         /\ tools' = IF r.kind = "tool" THEN tools \cup {r.name} ELSE tools
         /\ resources' = IF r.kind = "resource"
                         THEN resources \cup {r.name} ELSE resources
    /\ loadPc' = loadPc + 1
    /\ UNCHANGED <<AccountLoaded, accounts, before, lastCall, accesses, ret>>
    /\ UNCHANGED <<trVars, envVars, debVars>>

\* mcp.run(transport="stdio")
McpRun ==
    /\ loadPc = Len(Registrations) + 1
    /\ loadPc' = loadPc + 1
    /\ UNCHANGED <<tools, resources, AccountLoaded, accounts, before,
                   lastCall, accesses, ret>>
    /\ UNCHANGED <<trVars, envVars, debVars>>

\* `return _Account().get(key).<op>`: the shape every handler has.  _Account()
\* binds the global on first use; the handler returns what the access produced.
Forward(fn, name, fnargs, key, op, args) ==
    /\ LET r == AccountAccess(accounts, key, op, args) IN
         /\ accounts' = r.accts
         /\ accesses' = << [key |-> key, op |-> op, args |-> args,
                            out |-> r.out] >>
         /\ ret' = r.out
    /\ AccountLoaded' = TRUE
    /\ before' = accounts
    /\ lastCall' = [fn |-> fn, name |-> name, args |-> fnargs]
    /\ UNCHANGED <<loadPc, tools, resources>>
    /\ UNCHANGED <<trVars, envVars, debVars>>

get_balance_lowered(name) ==
    /\ Serving
    /\ "get_balance" \in tools
    /\ Forward("get_balance", name, <<>>, Lower(name), "balance", <<>>)

get_balance(name) ==
    /\ Serving
    /\ "get_balance" \in tools
    /\ Forward("get_balance", name, <<>>, name, "balance", <<>>)

get_holdings(name) ==
    /\ Serving
    /\ "get_holdings" \in tools
    /\ Forward("get_holdings", name, <<>>, name, "holdings", <<>>)

buy_shares(name, symbol, quantity, rationale) ==
    /\ Serving
    /\ "buy_shares" \in tools
    /\ Forward("buy_shares", name, <<symbol, quantity, rationale>>,
       name, "buy_shares", <<symbol, quantity, rationale>>)

sell_shares(name, symbol, quantity, rationale) ==
    /\ Serving
    /\ "sell_shares" \in tools
    /\ Forward("sell_shares", name, <<symbol, quantity, rationale>>,
       name, "sell_shares", <<symbol, quantity, rationale>>)

change_strategy(name, strategy) ==
    /\ Serving
    /\ "change_strategy" \in tools
    /\ Forward("change_strategy", name, <<strategy>>,
       name, "change_strategy", <<strategy>>)

read_account_resource(name) ==
    /\ Serving
    /\ "read_account_resource" \in resources
    /\ Forward("read_account_resource", name, <<>>, Lower(name), "report", <<>>)

read_strategy_resource_changing(name) ==
    /\ Serving
    /\ "read_strategy_resource" \in resources
    /\ Forward("read_strategy_resource", name, <<>>,
       Lower(name), "change_strategy", <<"value">>)

read_strategy_resource(name) ==
    /\ Serving
    /\ "read_strategy_resource" \in resources
    /\ Forward("read_strategy_resource", name, <<>>,
       Lower(name), "get_strategy", <<>>)

ToolCall ==
    \E name \in Names :
        \/ get_balance(name)
        \/ get_holdings(name)
        \/ \E s \in Symbols, q \in 1..MaxQuantity, r \in Rationales :
              \/ buy_shares(name, s, q, r)
              \/ sell_shares(name, s, q, r)
        \/ \E st \in Strategies : change_strategy(name, st)

ResourceRead ==
    \E name \in Names :
        \/ read_account_resource(name)
        \/ read_strategy_resource(name)

NextServer ==
    \/ Register
    \/ McpRun
    \/ ToolCall
    \/ ResourceRead

---------------------------------------------------------------------------
(* traders.py *)

Tasks  == {1, 2}
Errors == {"TimeoutError", "RuntimeError"}

Reverse(s) == [i \in 1..Len(s) |-> s[Len(s) + 1 - i]]

InFlight(t) == pc[t] \notin {"idle", "returned", "done", "raised"}

\* Trader.__init__, with no caller inside run_with_trace yet.
TraderInit ==
    /\ nTrader \in {1, MaxTraderServers}
    /\ nResearcher \in {0, MaxResearcherServers}
    /\ do_trade = TRUE
    /\ pc = [t \in Tasks |-> "idle"]
    /\ label = [t \in Tasks |-> "none"]
    /\ msg = [t \in Tasks |-> "none"]
    /\ exc = [t \in Tasks |-> "none"]
    /\ thrown = [t \in Tasks |-> "none"]
    /\ tOpen = [t \in Tasks |-> <<>>]
    /\ rOpen = [t \in Tasks |-> <<>>]
    /\ started = [t \in Tasks |-> <<>>]
    /\ closed = [t \in Tasks |-> <<>>]
    /\ printed = [t \in Tasks |-> FALSE]
    /\ overlapped = [t \in Tasks |-> FALSE]
    /\ invocations = 0
    /\ completed = 0
    /\ sent = <<>>
    /\ mismatch = FALSE

run_with_trace_swapped(t) ==
    /\ pc[t] \in {"idle", "done", "raised"}
    /\ invocations < MaxInvocations
    /\ invocations' = invocations + 1
    /\ label' = [label EXCEPT ![t] = IF do_trade THEN "rebalancing" ELSE "trading"]
    /\ pc' = [pc EXCEPT ![t] = "enter_trader"]
    /\ msg' = [msg EXCEPT ![t] = "none"]
    /\ exc' = [exc EXCEPT ![t] = "none"]
    /\ thrown' = [thrown EXCEPT ![t] = "none"]
    /\ started' = [started EXCEPT ![t] = <<>>]
    /\ closed' = [closed EXCEPT ![t] = <<>>]
    /\ printed' = [printed EXCEPT ![t] = FALSE]
    /\ overlapped' = [u \in Tasks |->
                        IF u = t THEN \E v \in Tasks \ {t} : InFlight(v)
                        ELSE overlapped[u] \/ InFlight(u)]
    /\ UNCHANGED <<nTrader, nResearcher, do_trade, tOpen, rOpen,
                   completed, sent, mismatch>>
    /\ UNCHANGED <<srvVars, envVars, debVars>>

\* run_with_trace up to its await: the label is built from do_trade as it is now.
run_with_trace(t) ==
    /\ pc[t] \in {"idle", "done", "raised"}
    /\ invocations < MaxInvocations
    /\ invocations' = invocations + 1
    /\ label' = [label EXCEPT ![t] = IF do_trade THEN "trading" ELSE "rebalancing"]
    /\ pc' = [pc EXCEPT ![t] = "enter_trader"]
    /\ msg' = [msg EXCEPT ![t] = "none"]
    /\ exc' = [exc EXCEPT ![t] = "none"]
    /\ thrown' = [thrown EXCEPT ![t] = "none"]
    /\ started' = [started EXCEPT ![t] = <<>>]
    /\ closed' = [closed EXCEPT ![t] = <<>>]
    /\ printed' = [printed EXCEPT ![t] = FALSE]
    /\ overlapped' = [u \in Tasks |->
                        IF u = t THEN \E v \in Tasks \ {t} : InFlight(v)
                        ELSE overlapped[u] \/ InFlight(u)]
    /\ UNCHANGED <<nTrader, nResearcher, do_trade, tOpen, rOpen,
                   completed, sent, mismatch>>
    /\ UNCHANGED <<srvVars, envVars, debVars>>

\* An awaited library call raises e; no handler between it and the caller.
Raise(t, e, unwindTo) ==
    /\ thrown' = [thrown EXCEPT ![t] = e]
    /\ exc' = [exc EXCEPT ![t] = e]
    /\ pc' = [pc EXCEPT ![t] = unwindTo]

\* stack.enter_async_context(MCPServerStdio(p)) for the next trader param
EnterTraderServer(t) ==
    /\ pc[t] = "enter_trader"
    /\ Len(tOpen[t]) < nTrader
    /\ LET srv == <<"trader", Len(tOpen[t]) + 1>> IN
         /\ tOpen' = [tOpen EXCEPT ![t] = Append(@, srv)]
         /\ started' = [started EXCEPT ![t] = Append(@, srv)]
    /\ UNCHANGED <<nTrader, nResearcher, do_trade, pc, label, msg, exc, thrown,
                   rOpen, closed, printed, overlapped, invocations, completed,
                   sent, mismatch>>
    /\ UNCHANGED <<srvVars, envVars, debVars>>

EnterTraderServerFails(t, e) ==
    /\ pc[t] = "enter_trader"
    /\ Len(tOpen[t]) < nTrader
    /\ Raise(t, e, "exit_trader")
    /\ UNCHANGED <<nTrader, nResearcher, do_trade, label, msg, tOpen, rOpen,
                   started, closed, printed, overlapped, invocations,
                   completed, sent, mismatch>>
    /\ UNCHANGED <<srvVars, envVars, debVars>>

\* the trader list is complete: `async with AsyncExitStack() as stack_r`
EnterResearcherStack(t) ==
    /\ pc[t] = "enter_trader"
    /\ Len(tOpen[t]) = nTrader
    /\ pc' = [pc EXCEPT ![t] = "enter_researcher"]
    /\ UNCHANGED <<nTrader, nResearcher, do_trade, label, msg, exc, thrown,
                   tOpen, rOpen, started, closed, printed, overlapped,
                   invocations, completed, sent, mismatch>>
    /\ UNCHANGED <<srvVars, envVars, debVars>>

EnterResearcherServer(t) ==
    /\ pc[t] = "enter_researcher"
    /\ Len(rOpen[t]) < nResearcher
    /\ LET srv == <<"researcher", Len(rOpen[t]) + 1>> IN
         /\ rOpen' = [rOpen EXCEPT ![t] = Append(@, srv)]
         /\ started' = [started EXCEPT ![t] = Append(@, srv)]
    /\ UNCHANGED <<nTrader, nResearcher, do_trade, pc, label, msg, exc, thrown,
                   tOpen, closed, printed, overlapped, invocations, completed,
                   sent, mismatch>>
    /\ UNCHANGED <<srvVars, envVars, debVars>>

EnterResearcherServerFails(t, e) ==
    /\ pc[t] = "enter_researcher"
    /\ Len(rOpen[t]) < nResearcher
    /\ Raise(t, e, "exit_researcher")
    /\ UNCHANGED <<nTrader, nResearcher, do_trade, label, msg, tOpen, rOpen,
                   started, closed, printed, overlapped, invocations,
                   completed, sent, mismatch>>
    /\ UNCHANGED <<srvVars, envVars, debVars>>

\* the researcher list is complete: `await self._session(...)` begins
StartSession(t) ==
    /\ pc[t] = "enter_researcher"
    /\ Len(rOpen[t]) = nResearcher
    /\ pc' = [pc EXCEPT ![t] = "make_agent"]
    /\ UNCHANGED <<nTrader, nResearcher, do_trade, label, msg, exc, thrown,
                   tOpen, rOpen, started, closed, printed, overlapped,
                   invocations, completed, sent, mismatch>>
    /\ UNCHANGED <<srvVars, envVars, debVars>>

\* agent = await self._make_agent(trader_mcp, researcher_mcp)
MakeAgent(t) ==
    /\ pc[t] = "make_agent"
    /\ pc' = [pc EXCEPT ![t] = "read_account"]
    /\ UNCHANGED <<nTrader, nResearcher, do_trade, label, msg, exc, thrown,
                   tOpen, rOpen, started, closed, printed, overlapped,
                   invocations, completed, sent, mismatch>>
    /\ UNCHANGED <<srvVars, envVars, debVars>>

MakeAgentFails(t, e) ==
    /\ pc[t] = "make_agent"
    /\ Raise(t, e, "exit_researcher")
    /\ UNCHANGED <<nTrader, nResearcher, do_trade, label, msg, tOpen, rOpen,
                   started, closed, printed, overlapped, invocations,
                   completed, sent, mismatch>>
    /\ UNCHANGED <<srvVars, envVars, debVars>>

\* _account_snapshot: acc = await read_accounts_resource(self.name); json.loads
ReadAccount(t) ==
    /\ pc[t] = "read_account"
    /\ pc' = [pc EXCEPT ![t] = "read_strategy"]
    /\ UNCHANGED <<nTrader, nResearcher, do_trade, label, msg, exc, thrown,
                   tOpen, rOpen, started, closed, printed, overlapped,
                   invocations, completed, sent, mismatch>>
    /\ UNCHANGED <<srvVars, envVars, debVars>>

ReadAccountFails(t, e) ==
    /\ pc[t] = "read_account"
    /\ Raise(t, e, "exit_researcher")
    /\ UNCHANGED <<nTrader, nResearcher, do_trade, label, msg, tOpen, rOpen,
                   started, closed, printed, overlapped, invocations,
                   completed, sent, mismatch>>
    /\ UNCHANGED <<srvVars, envVars, debVars>>

LabelOf(mode) == IF mode = "trade" THEN "trading" ELSE "rebalancing"

ReadStrategy_swapped(t) ==
    /\ pc[t] = "read_strategy"
    /\ LET mode == IF do_trade THEN "rebalance" ELSE "trade" IN
         /\ msg' = [msg EXCEPT ![t] = mode]
         /\ sent' = Append(sent, [mode |-> mode, after |-> completed])
         /\ mismatch' = (mismatch \/ LabelOf(mode) # label[t])
    /\ pc' = [pc EXCEPT ![t] = "running"]
    /\ UNCHANGED <<nTrader, nResearcher, do_trade, label, exc, thrown,
                   tOpen, rOpen, started, closed, printed, overlapped,
                   invocations, completed>>
    /\ UNCHANGED <<srvVars, envVars, debVars>>

\* strategy = await read_strategy_resource(self.name); back in _session the
\* message is chosen by do_trade as it is now and handed to Runner.run.
ReadStrategy(t) ==
    /\ pc[t] = "read_strategy"
    /\ LET mode == IF do_trade THEN "trade" ELSE "rebalance" IN
         /\ msg' = [msg EXCEPT ![t] = mode]
         /\ sent' = Append(sent, [mode |-> mode, after |-> completed])
         /\ mismatch' = (mismatch \/ LabelOf(mode) # label[t])
    /\ pc' = [pc EXCEPT ![t] = "running"]
    /\ UNCHANGED <<nTrader, nResearcher, do_trade, label, exc, thrown,
                   tOpen, rOpen, started, closed, printed, overlapped,
                   invocations, completed>>
    /\ UNCHANGED <<srvVars, envVars, debVars>>

ReadStrategyFails(t, e) ==
    /\ pc[t] = "read_strategy"
    /\ Raise(t, e, "exit_researcher")
    /\ UNCHANGED <<nTrader, nResearcher, do_trade, label, msg, tOpen, rOpen,
                   started, closed, printed, overlapped, invocations,
                   completed, sent, mismatch>>
    /\ UNCHANGED <<srvVars, envVars, debVars>>

\* await Runner.run(...) returns; self.do_trade = not self.do_trade
RunnerRunReturns(t) ==
    /\ pc[t] = "running"
    /\ do_trade' = ~do_trade
    /\ completed' = completed + 1
    /\ pc' = [pc EXCEPT ![t] = "exit_researcher"]
    /\ UNCHANGED <<nTrader, nResearcher, label, msg, exc, thrown,
                   tOpen, rOpen, started, closed, printed, overlapped,
                   invocations, sent, mismatch>>
    /\ UNCHANGED <<srvVars, envVars, debVars>>

RunnerRunFails_flipping(t, e) ==
    /\ pc[t] = "running"
    /\ Raise(t, e, "exit_researcher")
    /\ do_trade' = ~do_trade
    /\ UNCHANGED <<nTrader, nResearcher, label, msg, tOpen, rOpen,
                   started, closed, printed, overlapped, invocations,
                   completed, sent, mismatch>>
    /\ UNCHANGED <<srvVars, envVars, debVars>>

RunnerRunFails_swallowed(t, e) ==
    /\ pc[t] = "running"
    /\ thrown' = [thrown EXCEPT ![t] = e]
    /\ pc' = [pc EXCEPT ![t] = "exit_researcher"]
    /\ UNCHANGED <<nTrader, nResearcher, do_trade, label, msg, exc, tOpen, rOpen,
                   started, closed, printed, overlapped, invocations,
                   completed, sent, mismatch>>
    /\ UNCHANGED <<srvVars, envVars, debVars>>

RunnerRunFails(t, e) ==
    /\ pc[t] = "running"
    /\ Raise(t, e, "exit_researcher")
    /\ UNCHANGED <<nTrader, nResearcher, do_trade, label, msg, tOpen, rOpen,
                   started, closed, printed, overlapped, invocations,
                   completed, sent, mismatch>>
    /\ UNCHANGED <<srvVars, envVars, debVars>>

\* stack_r.__aexit__: the researcher servers are closed last-entered first
ExitResearcherServer(t) ==
    /\ pc[t] = "exit_researcher"
    /\ rOpen[t] # <<>>
    /\ closed' = [closed EXCEPT ![t] = Append(@, rOpen[t][Len(rOpen[t])])]
    /\ rOpen' = [rOpen EXCEPT ![t] = SubSeq(@, 1, Len(@) - 1)]
    /\ UNCHANGED <<nTrader, nResearcher, do_trade, pc, label, msg, exc, thrown,
                   tOpen, started, printed, overlapped, invocations,
                   completed, sent, mismatch>>
    /\ UNCHANGED <<srvVars, envVars, debVars>>

ExitResearcherStack(t) ==
    /\ pc[t] = "exit_researcher"
    /\ rOpen[t] = <<>>
    /\ pc' = [pc EXCEPT ![t] = "exit_trader"]
    /\ UNCHANGED <<nTrader, nResearcher, do_trade, label, msg, exc, thrown,
                   tOpen, rOpen, started, closed, printed, overlapped,
                   invocations, completed, sent, mismatch>>
    /\ UNCHANGED <<srvVars, envVars, debVars>>

ExitTraderServer_fifo(t) ==
    /\ pc[t] = "exit_trader"
    /\ tOpen[t] # <<>>
    /\ closed' = [closed EXCEPT ![t] = Append(@, Head(tOpen[t]))]
    /\ tOpen' = [tOpen EXCEPT ![t] = Tail(@)]
    /\ UNCHANGED <<nTrader, nResearcher, do_trade, pc, label, msg, exc, thrown,
                   rOpen, started, printed, overlapped, invocations,
                   completed, sent, mismatch>>
    /\ UNCHANGED <<srvVars, envVars, debVars>>

\* stack.__aexit__: the trader servers are closed last-entered first
ExitTraderServer(t) ==
    /\ pc[t] = "exit_trader"
    /\ tOpen[t] # <<>>
    /\ closed' = [closed EXCEPT ![t] = Append(@, tOpen[t][Len(tOpen[t])])]
    /\ tOpen' = [tOpen EXCEPT ![t] = SubSeq(@, 1, Len(@) - 1)]
    /\ UNCHANGED <<nTrader, nResearcher, do_trade, pc, label, msg, exc, thrown,
                   rOpen, started, printed, overlapped, invocations,
                   completed, sent, mismatch>>
    /\ UNCHANGED <<srvVars, envVars, debVars>>

\* leaving `with trace(...)`: run_with_trace returns, or raises what propagates
ExitTrace(t) ==
    /\ pc[t] = "exit_trader"
    /\ tOpen[t] = <<>>
    /\ pc' = [pc EXCEPT ![t] = IF exc[t] = "none" THEN "returned" ELSE "raised"]
    /\ UNCHANGED <<nTrader, nResearcher, do_trade, label, msg, exc, thrown,
                   tOpen, rOpen, started, closed, printed, overlapped,
                   invocations, completed, sent, mismatch>>
    /\ UNCHANGED <<srvVars, envVars, debVars>>

\* main.py: updated = await read_accounts_resource("Tom"); print(...)
MainReadPrint(t) ==
    /\ pc[t] = "returned"
    /\ printed' = [printed EXCEPT ![t] = TRUE]
    /\ pc' = [pc EXCEPT ![t] = "done"]
    /\ UNCHANGED <<nTrader, nResearcher, do_trade, label, msg, exc, thrown,
                   tOpen, rOpen, started, closed, overlapped,
                   invocations, completed, sent, mismatch>>
    /\ UNCHANGED <<srvVars, envVars, debVars>>

TraderStep(t) ==
    \/ EnterTraderServer(t)
    \/ EnterResearcherStack(t)
    \/ EnterResearcherServer(t)
    \/ StartSession(t)
    \/ MakeAgent(t)
    \/ ReadAccount(t)
    \/ ReadStrategy(t)
    \/ RunnerRunReturns(t)
    \/ ExitResearcherServer(t)
    \/ ExitResearcherStack(t)
    \/ ExitTraderServer(t)
    \/ ExitTrace(t)
    \/ MainReadPrint(t)
    \/ \E e \in Errors :
          \/ EnterTraderServerFails(t, e)
          \/ EnterResearcherServerFails(t, e)
          \/ MakeAgentFails(t, e)
          \/ ReadAccountFails(t, e)
          \/ ReadStrategyFails(t, e)
          \/ RunnerRunFails(t, e)

\* The callers use the Trader one after another (main.py: one await chain).
NextTrader ==
    \E t \in Tasks :
        \/ (\A u \in Tasks : ~InFlight(u)) /\ run_with_trace(t)
        \/ TraderStep(t)

\* The callers may call run_with_trace while another call is in flight.
NextTraderOverlap ==
    \E t \in Tasks :
        \/ run_with_trace(t)
        \/ TraderStep(t)

---------------------------------------------------------------------------
(* main.py *)

\* str(LEGACY_DIR): the project directory; it holds no colon.
LEGACY_DIR == <<"/", "p">>

PathChars == {"a", ":"}
EnvNames  == {"PATH", "HOME"}

\* The strings over `chars` of length at most n.
RECURSIVE StringsUpTo(_, _)
StringsUpTo(chars, n) ==
    IF n = 0 THEN { <<>> }
    ELSE LET shorter == StringsUpTo(chars, n - 1) IN
         shorter \cup { Append(s, c) : s \in shorter, c \in chars }

\* os.environ.get(name, default)
EnvironGet(env, name, default) ==
    IF name \in DOMAIN env THEN env[name] ELSE default

\* os.environ[name] = value
EnvironSet(env, name, value) ==
    [k \in DOMAIN env \cup {name} |-> IF k = name THEN value ELSE env[k]]

\* str.split(":"): the entries of a search path
RECURSIVE Split(_)
Split(s) ==
    IF \A i \in 1..Len(s) : s[i] # ":"
    THEN << s >>
    ELSE LET k == CHOOSE i \in 1..Len(s) :
                      /\ s[i] = ":"
                      /\ \A j \in 1..(i - 1) : s[j] # ":"
         IN << SubSeq(s, 1, k - 1) >> \o Split(SubSeq(s, k + 1, Len(s)))

MainInit ==
    /\ mainPc = "start"
    /\ cwd \in { LEGACY_DIR, <<"/", "w">> }
    /\ environ \in UNION { [D -> StringsUpTo(PathChars, MaxPathLen)] :
                              D \in SUBSET EnvNames }
    /\ cwd0 = cwd
    /\ environ0 = environ
    /\ dirExists \in BOOLEAN
    /\ isLinux \in BOOLEAN
    /\ childWatcher = FALSE

prepare_env_appending ==
    /\ mainPc = "start"
    /\ dirExists
    /\ cwd' = LEGACY_DIR
    /\ environ' = EnvironSet(environ, "PATH",
                        EnvironGet(environ, "PATH", <<>>) \o <<":">> \o LEGACY_DIR)
    /\ mainPc' = "prepared"
    /\ UNCHANGED <<cwd0, environ0, dirExists, isLinux, childWatcher>>
    /\ UNCHANGED <<srvVars, trVars, debVars>>

\* os.chdir(LEGACY_DIR); os.environ["PATH"] = f"{LEGACY_DIR}:{os.environ.get('PATH', '')}"
prepare_env ==
    /\ mainPc = "start"
    /\ dirExists
    /\ cwd' = LEGACY_DIR
    /\ environ' = EnvironSet(environ, "PATH",
                        LEGACY_DIR \o <<":">> \o EnvironGet(environ, "PATH", <<>>))
    /\ mainPc' = "prepared"
    /\ UNCHANGED <<cwd0, environ0, dirExists, isLinux, childWatcher>>
    /\ UNCHANGED <<srvVars, trVars, debVars>>

\* os.chdir raises (the directory is missing): main() ends with the exception
prepare_env_raises ==
    /\ mainPc = "start"
    /\ ~dirExists
    /\ mainPc' = "raised"
    /\ UNCHANGED <<cwd, environ, cwd0, environ0, dirExists, isLinux, childWatcher>>
    /\ UNCHANGED <<srvVars, trVars, debVars>>

\* attaches a SafeChildWatcher on Linux; main() goes on to the trader
ensure_child_watcher ==
    /\ mainPc = "prepared"
    /\ childWatcher' = isLinux
    /\ mainPc' = "trader"
    /\ UNCHANGED <<cwd, environ, cwd0, environ0, dirExists, isLinux>>
    /\ UNCHANGED <<srvVars, trVars, debVars>>

NextMain ==
    \/ prepare_env
    \/ prepare_env_raises
    \/ ensure_child_watcher

---------------------------------------------------------------------------
(* ai_debate/main.py *)

\* "An error occurred while running the crew: "
Prefix == <<"E", ":", " ">>

TextChars == {"x", "y"}

\* An exception: its class, whether the class derives from Exception, str(e).
ExceptionClasses == {"ValueError", "RuntimeError", "KeyboardInterrupt"}

IsException(cls) == cls # "KeyboardInterrupt"

Exceptions ==
    [cls : ExceptionClasses, text : StringsUpTo(TextChars, MaxTextLen)]

NoException == [cls |-> "none", text |-> <<>>]

RunInit ==
    /\ runPc = "start"
    /\ raw \in StringsUpTo(TextChars, MaxTextLen)
    /\ kickoffs = 0
    /\ stdout = <<>>
    /\ runThrown = NoException
    /\ runExc = NoException

Handler_bare_reraise(e) == e

\* except Exception as e: raise Exception(f"An error occurred ...: {e}")
Handler(e) ==
    IF IsException(e.cls)
    THEN [cls |-> "Exception", text |-> Prefix \o e.text]
    ELSE e

\* e is raised inside the try block
RunRaise(e) ==
    /\ runThrown' = e
    /\ runExc' = Handler(e)
    /\ runPc' = "raised"

\* AiDebate().crew(): the crew is built
BuildCrew ==
    /\ runPc = "start"
    /\ runPc' = "built"
    /\ UNCHANGED <<raw, kickoffs, stdout, runThrown, runExc>>
    /\ UNCHANGED <<srvVars, trVars, envVars>>

BuildCrewRaises(e) ==
    /\ runPc = "start"
    /\ RunRaise(e)
    /\ UNCHANGED <<raw, kickoffs, stdout>>
    /\ UNCHANGED <<srvVars, trVars, envVars>>

\* result = ....kickoff(inputs=inputs)
Kickoff ==
    /\ runPc = "built"
    /\ kickoffs' = kickoffs + 1
    /\ runPc' = "kicked"
    /\ UNCHANGED <<raw, stdout, runThrown, runExc>>
    /\ UNCHANGED <<srvVars, trVars, envVars>>

KickoffRaises(e) ==
    /\ runPc = "built"
    /\ kickoffs' = kickoffs + 1
    /\ RunRaise(e)
    /\ UNCHANGED <<raw, stdout>>
    /\ UNCHANGED <<srvVars, trVars, envVars>>

\* print(result.raw); run() returns
PrintRaw ==
    /\ runPc = "kicked"
    /\ stdout' = Append(stdout, raw)
    /\ runPc' = "returned"
    /\ UNCHANGED <<raw, kickoffs, runThrown, runExc>>
    /\ UNCHANGED <<srvVars, trVars, envVars>>

PrintRawRaises(e) ==
    /\ runPc = "kicked"
    /\ RunRaise(e)
    /\ UNCHANGED <<raw, kickoffs, stdout>>
    /\ UNCHANGED <<srvVars, trVars, envVars>>

NextRun ==
    \/ BuildCrew
    \/ Kickoff
    \/ PrintRaw
    \/ \E e \in Exceptions :
          \/ BuildCrewRaises(e)
          \/ KickoffRaises(e)
          \/ PrintRawRaises(e)

---------------------------------------------------------------------------
(* Specifications *)

\* Each specification runs one program; the others stay as constructed.
ParkedServer == ServerInit

ParkedTrader ==
    /\ TraderInit
    /\ nTrader = 1
    /\ nResearcher = 0

ParkedMain ==
    /\ MainInit
    /\ cwd = LEGACY_DIR
    /\ environ = <<>>
    /\ dirExists
    /\ isLinux

ParkedRun ==
    /\ RunInit
    /\ raw = <<>>

InitServer == ServerInit /\ ParkedTrader /\ ParkedMain /\ ParkedRun

InitTrader == ParkedServer /\ TraderInit /\ ParkedMain /\ ParkedRun

InitMain == ParkedServer /\ ParkedTrader /\ MainInit /\ ParkedRun

InitRun == ParkedServer /\ ParkedTrader /\ ParkedMain /\ RunInit

SpecServer == InitServer /\ [][NextServer]_vars

SpecTrader == InitTrader /\ [][NextTrader]_vars

SpecTraderOverlap == InitTrader /\ [][NextTraderOverlap]_vars

SpecMain == InitMain /\ [][NextMain]_vars

SpecRun == InitRun /\ [][NextRun]_vars

---------------------------------------------------------------------------
(* Properties *)

ToolNames == {"get_balance", "get_holdings", "buy_shares", "sell_shares",
              "change_strategy"}

ResourceNames == {"read_account_resource", "read_strategy_resource"}

\* The account access each handler stands for.
AccessOf(fn) ==
    CASE fn = "get_balance"            -> "balance"
      [] fn = "get_holdings"           -> "holdings"
      [] fn = "buy_shares"             -> "buy_shares"
      [] fn = "sell_shares"            -> "sell_shares"
      [] fn = "change_strategy"        -> "change_strategy"
      [] fn = "read_account_resource"  -> "report"
      [] fn = "read_strategy_resource" -> "get_strategy"

Tom == <<"T", "o", "m">>

\* C1: every tool looks up Account.get(name) with the name as given, makes
\* exactly one access on that account (balance, holdings, buy_shares,
\* sell_shares or change_strategy, with its own arguments in order) and returns
\* what that access produced, unchanged.
C1_ToolsForward ==
    lastCall.fn \in ToolNames =>
        LET want == AccountAccess(before, lastCall.name, AccessOf(lastCall.fn),
                                  lastCall.args)
        IN /\ Len(accesses) = 1
           /\ accesses[1].key = lastCall.name
           /\ accesses[1].op = AccessOf(lastCall.fn)
           /\ accesses[1].args = lastCall.args
           /\ ret = accesses[1].out
           /\ ret = want.out
           /\ accounts = want.accts

\* A get_balance for "Tom" answered while the accounts "Tom" and "tom" hold
\* different balances.
C1_Witness ==
    /\ lastCall.fn = "get_balance"
    /\ lastCall.name = Tom
    /\ ret.kind = "return"
    /\ accounts[Tom].balance # accounts[Lower(Tom)].balance

\* C3 as stated: the serving server has four tools and two resources.
C3_FourToolsTwoResources ==
    Serving => Cardinality(tools) = 4 /\ Cardinality(resources) = 2

\* C3 as amended: the serving server has exactly five tools (get_balance,
\* get_holdings, buy_shares, sell_shares, change_strategy) and exactly two
\* resources.
C3_FiveToolsTwoResources ==
    Serving =>
        /\ tools = ToolNames
        /\ Cardinality(tools) = 5
        /\ resources = ResourceNames
        /\ Cardinality(resources) = 2

\* The fifth tool, change_strategy, has been invoked on the serving server.
C3_Witness ==
    /\ Serving
    /\ lastCall.fn = "change_strategy"
    /\ ret.kind = "return"

\* C4: a resource read makes one access, report() or get_strategy(), on
\* Account.get(name.lower()) and leaves balance, holdings and strategy of every
\* account as they were.
C4_ResourcesReadOnly ==
    lastCall.fn \in ResourceNames =>
        /\ accounts = before
        /\ Len(accesses) = 1
        /\ accesses[1].key = Lower(lastCall.name)
        /\ accesses[1].op = AccessOf(lastCall.fn)
        /\ accesses[1].op \in {"report", "get_strategy"}
        /\ ret = AccountAccess(before, Lower(lastCall.name),
                               AccessOf(lastCall.fn), <<>>).out

\* The strategy of "Tom" was read after the account "tom" had been traded on
\* and its strategy changed.
C4_Witness ==
    /\ lastCall.fn = "read_strategy_resource"
    /\ lastCall.name = Tom
    /\ accounts[Lower(Tom)].strategy = "value"
    /\ accounts[Lower(Tom)].balance < InitBalance

ModeAfter(n) == IF n % 2 = 0 THEN "trade" ELSE "rebalance"

\* C2 as stated: the k-th message sent is the trade message when k is odd and
\* the rebalance message when k is even.
C2_ModesAlternate ==
    \A k \in 1..Len(sent) : sent[k].mode = ModeAfter(k - 1)

\* C2 as amended: a new Trader is in trade mode, a message is the trade message
\* exactly when an even number of sessions completed before it was built, and
\* of two consecutive invocations made one after another the second uses the
\* other mode exactly when the first completed.
C2_ModeFollowsCompletedSessions ==
    /\ (invocations = 0 => do_trade)
    /\ \A k \in 1..Len(sent) : sent[k].mode = ModeAfter(sent[k].after)
    /\ \A k \in 1..(Len(sent) - 1) :
          /\ sent[k + 1].after \in {sent[k].after, sent[k].after + 1}
          /\ (sent[k + 1].mode # sent[k].mode
                <=> sent[k + 1].after = sent[k].after + 1)

\* A session failed after its trade message, the next one traded again and
\* completed, and the third rebalanced.
C2_Witness ==
    /\ Len(sent) = 3
    /\ sent[1].mode = "trade"
    /\ sent[2].mode = "trade"
    /\ sent[3].mode = "rebalance"

\* C7: an exception raised by a server start-up, a resource read or Runner.run
\* leaves run_with_trace as it was raised, nothing of the invocation runs after
\* it but the closing of the servers, and the caller does not read and print
\* the updated account.
C7_FailuresPropagate ==
    \A t \in Tasks :
        /\ pc[t] = "raised" => thrown[t] \in Errors
        /\ thrown[t] # "none" =>
              /\ exc[t] = thrown[t]
              /\ pc[t] \in {"exit_researcher", "exit_trader", "raised"}
              /\ ~printed[t]
        /\ printed[t] => pc[t] = "done" /\ exc[t] = "none"

\* Runner.run raised TimeoutError with every server open, and it has left
\* run_with_trace.
C7_Witness ==
    \E t \in Tasks :
        /\ pc[t] = "raised"
        /\ exc[t] = "TimeoutError"
        /\ msg[t] # "none"
        /\ Len(closed[t]) = nTrader + nResearcher
        /\ nResearcher > 0

\* C8: do_trade is flipped once by each session whose Runner.run returned and
\* by nothing else (not by a session that failed, nor by one still running),
\* so a failed session leaves the mode for the next one.
C8_FlagFlipsOnlyOnCompletion ==
    /\ do_trade = (completed % 2 = 0)
    /\ completed <= Len(sent)
    /\ completed + Cardinality({t \in Tasks : pc[t] = "running"}) <= Len(sent)

\* A rebalance session failed in Runner.run and the Trader is still in
\* rebalance mode.
C8_Witness ==
    \E t \in Tasks :
        /\ pc[t] = "raised"
        /\ ~overlapped[t]
        /\ msg[t] = "rebalance"
        /\ ~do_trade
        /\ completed = 1

ExpectedStarts ==
    [i \in 1..(nTrader + nResearcher) |->
        IF i <= nTrader THEN <<"trader", i>> ELSE <<"researcher", i - nTrader>>]

IsPrefix(s, full) ==
    /\ Len(s) <= Len(full)
    /\ \A i \in 1..Len(s) : s[i] = full[i]

\* C9: the servers are started in list order, trader servers first; the
\* session runs only with every server open; and once run_with_mcp_servers has
\* returned or raised, every server it started is closed, in the reverse of
\* the start order (researcher servers first).
C9_ServerLifecycle ==
    \A t \in Tasks :
        /\ IsPrefix(started[t], ExpectedStarts)
        /\ pc[t] \in {"make_agent", "read_account", "read_strategy", "running"} =>
              /\ tOpen[t] \o rOpen[t] = ExpectedStarts
              /\ Len(tOpen[t]) = nTrader
              /\ closed[t] = <<>>
        /\ pc[t] \in {"returned", "done", "raised"} =>
              /\ tOpen[t] = <<>>
              /\ rOpen[t] = <<>>
              /\ closed[t] = Reverse(started[t])

\* One invocation failed while starting its second trader server and closed
\* the first; another ran its session and closed all three servers.
C9_Witness ==
    \E t, u \in Tasks :
        /\ nTrader = 2
        /\ nResearcher = 1
        /\ pc[t] = "raised"
        /\ msg[t] = "none"
        /\ closed[t] = << <<"trader", 1>> >>
        /\ pc[u] \in {"done", "raised"}
        /\ msg[u] # "none"
        /\ closed[u] = << <<"researcher", 1>>, <<"trader", 2>>, <<"trader", 1>> >>

\* C10: an invocation that no other invocation overlapped sends the message
\* its trace label names.
C10_LabelNamesMessage ==
    \A t \in Tasks :
        (msg[t] # "none" /\ ~overlapped[t]) => label[t] = LabelOf(msg[t])

\* Two overlapping invocations produced a label that does not name the message
\* sent, and a later invocation on its own was labelled and run as rebalancing.
C10_Witness ==
    /\ mismatch
    /\ \E t \in Tasks :
          /\ ~overlapped[t]
          /\ pc[t] = "done"
          /\ msg[t] = "rebalance"
          /\ label[t] = "rebalancing"

\* C5: once prepare_env has returned, the working directory is LEGACY_DIR,
\* PATH is LEGACY_DIR, a colon and the previous PATH (empty when unset), its
\* entries are LEGACY_DIR followed by the previous entries in order, and no
\* other environment variable has changed.
C5_PrepareEnv ==
    mainPc \in {"prepared", "trader"} =>
        LET old == EnvironGet(environ0, "PATH", <<>>) IN
        /\ cwd = LEGACY_DIR
        /\ "PATH" \in DOMAIN environ
        /\ environ["PATH"] = LEGACY_DIR \o <<":">> \o old
        /\ Split(environ["PATH"]) = << LEGACY_DIR >> \o Split(old)
        /\ DOMAIN environ = DOMAIN environ0 \cup {"PATH"}
        /\ \A k \in DOMAIN environ0 \ {"PATH"} : environ[k] = environ0[k]

\* prepare_env has returned from another directory with a two-entry PATH and
\* HOME set.
C5_Witness ==
    /\ mainPc = "prepared"
    /\ cwd0 # LEGACY_DIR
    /\ "PATH" \in DOMAIN environ0
    /\ Len(Split(environ0["PATH"])) = 2
    /\ "HOME" \in DOMAIN environ0

\* C6: an exception (an instance of Exception) raised in the try block leaves
\* run() as a plain Exception whose message is the fixed prefix followed by
\* the original message, anything else raised passes through as it is, and
\* when nothing is raised the crew was kicked off once and its raw result
\* printed once.
C6_RunWrapsErrors ==
    /\ runPc = "raised" =>
          IF IsException(runThrown.cls)
          THEN /\ runExc.cls = "Exception"
               /\ runExc.text = Prefix \o runThrown.text
               /\ SubSeq(runExc.text, Len(Prefix) + 1, Len(runExc.text))
                     = runThrown.text
          ELSE runExc = runThrown
    /\ runPc = "returned" =>
          /\ kickoffs = 1
          /\ stdout = << raw >>
          /\ runExc = NoException
          /\ runThrown = NoException

\* kickoff raised a ValueError with a message, and run() has raised.
C6_Witness ==
    /\ runPc = "raised"
    /\ kickoffs = 1
    /\ runThrown.cls = "ValueError"
    /\ Len(runThrown.text) = MaxTextLen

===========================================================================
